---------------------------- MODULE Spec2Model ----------------------------
(***************************************************************************)
(* Code-context synchronisation of the Playdo frontend.                    *)
(*                                                                         *)
(* App.tsx owns the editor code and the staleness flag (outputIsStale),    *)
(* usePythonExecution.ts owns the last ExecutionResult, and                *)
(* ConversationManager.tsx decides on every send which of                  *)
(* {code, stdout, stderr} travel with the message and remembers the last   *)
(* code it sent (lastSentCode).  Awaited calls (runs, fetches, sends) are  *)
(* kept as explicit in-flight records; each continuation after an await is *)
(* one action, because the browser runs it to completion before the next   *)
(* user event or timer.                                                    *)
(***************************************************************************)
EXTENDS Integers, Sequences, FiniteSets, TLC

\* ------------------------------------------------------------------------
\* Bounds of the model
\* ------------------------------------------------------------------------
\* awaited calls (executeCode, fetchConversation, sendMessage) that may be
\* outstanding at the same time
MaxPending == 2

\* ------------------------------------------------------------------------
\* Values
\* ------------------------------------------------------------------------
\* JavaScript null for the string-or-null fields
Null == "<null>"

\* selectedConversationId = null
NoConversation == 0

ConversationIds == {1}
\* the conversations the selector offers when the user has two
AllConversationIds == {1, 2}

DefaultCode == "# Write your Python code here\nprint('Hello, Playdo!')"

\* editor texts: the initial text, the empty editor, and a text that differs
\* from the empty one only by white space
Codes == {DefaultCode, "", " "}

\* texts of the message input
Messages == {"", " ", "hi"}

\* String.prototype.trim on the texts above
Trim(s) == IF s = " " THEN "" ELSE s

\* values of the error state of ConversationManager
LoadError == "Failed to load conversation. Please try again later."
SendError == "Failed to send message. Please try again."
TimeoutError == "The request is taking longer than expected. Please try again."

\* result: null in usePythonExecution
NoResult ==
    [present |-> FALSE, stdout |-> "", stderr |-> "", error |-> Null, value |-> Null]

\* result at the start of executeCode
ClearedResult ==
    [present |-> TRUE, stdout |-> "", stderr |-> "", error |-> Null, value |-> Null]

\* result after executeCode threw
InfraError == "Pyodide is not initialized"
FailedResult ==
    [present |-> TRUE, stdout |-> "", stderr |-> "", error |-> InfraError, value |-> Null]

\* a program that prints and then raises, and a program that ends in a value
FaultyCode == "import sys\nprint('a')\nsys.stderr.write('w')\n1/0"
ValueCode == "1 + 1"

\* programs run against the engine
Programs == {DefaultCode, FaultyCode, ValueCode}

\* what the engine captures when it runs each editor text
Stdout(c) ==
    CASE c = DefaultCode -> "Hello, Playdo!"
      [] c = FaultyCode -> "a"
      [] OTHER -> ""
Stderr(c) == IF c = FaultyCode THEN "w" ELSE ""

\* the message of the exception runPythonAsync rejects with, if the program raises
Fault(c) == IF c = FaultyCode THEN "ZeroDivisionError: division by zero" ELSE Null

\* the value runPythonAsync resolves with
Value(c) == IF c = ValueCode THEN "2" ELSE Null

\* PyodideRunner.executeCode: try returns {stdout, stderr, error: null, result},
\* catch returns {stdout, stderr, error: message, result: null}
RunResult(c) ==
    [present |-> TRUE, stdout |-> Stdout(c), stderr |-> Stderr(c),
     error |-> Fault(c), value |-> IF Fault(c) # Null THEN Null ELSE Value(c)]

\* the output a program emits while it runs, one chunk for each call of a
\* batched handler, in emission order
Chunks(c) ==
    CASE c = DefaultCode -> <<[stream |-> "stdout", text |-> "Hello, Playdo!"]>>
      [] c = FaultyCode -> <<[stream |-> "stdout", text |-> "a"],
                             [stream |-> "stderr", text |-> "w"]>>
      [] OTHER -> <<>>

\* stdoutBuffer.join('\n')
RECURSIVE Join(_)
Join(buffer) ==
    IF buffer = <<>> THEN ""
    ELSE IF Len(buffer) = 1 THEN buffer[1]
    ELSE buffer[1] \o "\n" \o Join(Tail(buffer))

ExecutionResultKeepsValue(call) ==
    [present |-> TRUE,
     stdout |-> Join(call.stdoutBuffer),
     stderr |-> Join(call.stderrBuffer),
     error |-> Fault(call.code),
     value |-> IF Fault(call.code) # Null THEN "partial" ELSE Value(call.code)]

\* PyodideRunner.executeCode after runPythonAsync settled: the buffers of
\* this call joined, with the value, or with the message of the exception
ExecutionResult(call) ==
    [present |-> TRUE,
     stdout |-> Join(call.stdoutBuffer),
     stderr |-> Join(call.stderrBuffer),
     error |-> Fault(call.code),
     value |-> IF Fault(call.code) # Null THEN Null ELSE Value(call.code)]

\* result after executeCode threw because loadPyodide rejected
LoadFault == "Failed to load"
LoadFailedResult ==
    [present |-> TRUE, stdout |-> "", stderr |-> "", error |-> LoadFault, value |-> Null]

\* PyodideStatus
UNINITIALIZED == "uninitialized"
LOADING == "loading"
READY == "ready"
ERROR == "error"

\* where an asynchronous call of the hook is suspended: in hook initialize
\* (awaiting loadPyodide through pyodideService.initialize), in
\* pyodideService.executeCode (awaiting loadPyodide through this.initialize),
\* or awaiting runPythonAsync
AtHookInitialize == "hook.initialize"
AtServiceInitialize == "service.initialize"
AtRunPython == "runPythonAsync"

\* timeoutRef.current: null, a timer that is still pending, a timer that fired
NoTimer == "none"
PendingTimer == "pending"
FiredTimer == "fired"

\* history of the editor code with respect to sends and runs: not sent since
\* the last edit; sent with a message that succeeded; sent and then run
\* again to completion, with no edit in between
NothingSent == "nothing sent"
CodeSent == "code sent"
CodeSentThenRun == "code sent, then run"

VARIABLES
    selectedConversationId, code, outputIsStale,        \* App
    result, isCodeRunning,                              \* usePythonExecution
    conversation, loading, error, messageInput,         \* ConversationManager
    sending, lastSentCode, timeoutRef,
    runs, fetches, sends,                               \* awaited calls
    sentClean, retryBase, sentRerun,                    \* history
    pyodide, status,                                    \* PyodideRunner
    hookStatus, isPyodideInitializing,                  \* usePythonExecution
    initializeEffectDue,                                \* App: initialize effect
    calls,                                              \* hook calls in flight
    isAuthenticated,                                    \* AuthProvider
    attachedCode                                        \* backend: conversations

appVars == <<selectedConversationId, code, outputIsStale>>
hookVars == <<result, isCodeRunning>>
viewVars == <<conversation, loading, error, messageInput>>
sendVars == <<sending, lastSentCode, timeoutRef>>
vars == <<selectedConversationId, code, outputIsStale, result, isCodeRunning,
          conversation, loading, error, messageInput, sending, lastSentCode,
          timeoutRef, runs, fetches, sends, sentClean, retryBase, sentRerun,
          pyodide, status, hookStatus, isPyodideInitializing,
          initializeEffectDue, calls, isAuthenticated, attachedCode>>
engineVars == <<pyodide, status, hookStatus, isPyodideInitializing,
                initializeEffectDue, calls>>
chatVars == <<selectedConversationId, viewVars, sendVars, runs, fetches, sends,
              sentClean, retryBase, sentRerun>>
sessionVars == <<isAuthenticated, attachedCode>>

\* ------------------------------------------------------------------------
\* Helpers
\* ------------------------------------------------------------------------
\* a settled promise leaves the list of awaited calls
Remove(seq, i) == [j \in 1..(Len(seq) - 1) |-> IF j < i THEN seq[j] ELSE seq[j + 1]]

\* the three attachable fields of a payload
Payload(c, out, err) == [code |-> c, stdout |-> out, stderr |-> err]
NoPayload == [code |-> "<none>", stdout |-> "<none>", stderr |-> "<none>"]

\* an edit or a run happened while these sends were awaiting their response
Touched(ss) == [j \in 1..Len(ss) |-> [ss[j] EXCEPT !.clean = FALSE]]

\* ------------------------------------------------------------------------
\* Props handed from App to ConversationManager
\* ------------------------------------------------------------------------
\* stdout={result?.stdout || null}
StdoutProp(r) == IF ~r.present \/ r.stdout = "" THEN Null ELSE r.stdout

\* stderr={result?.stderr || null}
StderrProp(r) == IF ~r.present \/ r.stderr = "" THEN Null ELSE r.stderr

\* ------------------------------------------------------------------------
\* handleSendMessage: what to attach
\* ------------------------------------------------------------------------
CodeToSendNormalized(currentCode, last) ==
    IF Trim(currentCode) # Trim(last) THEN currentCode ELSE Null

CodeToSendNullAsEmpty(currentCode, last) ==
    IF currentCode # (IF last = Null THEN "" ELSE last) THEN currentCode ELSE Null

\* const codeToSend = currentCode !== lastSentCode ? currentCode : null
CodeToSend(currentCode, last) ==
    IF currentCode # last THEN currentCode ELSE Null

OutputToSendIgnoringStale(codeToSend, stale, out) ==
    IF codeToSend # Null THEN (IF out = Null THEN "" ELSE out) ELSE Null

OutputToSendRaw(codeToSend, stale, out) ==
    IF codeToSend # Null /\ ~stale THEN out ELSE Null

\* if (codeToSend !== null && !outputIsStale) { out === null ? '' : out }
OutputToSend(codeToSend, stale, out) ==
    IF codeToSend # Null /\ ~stale
    THEN (IF out = Null THEN "" ELSE out)
    ELSE Null

\* awaited calls outstanding
Pending == Len(runs) + Len(fetches) + Len(sends)

\* the form with the message input is rendered
FormRendered ==
    /\ isAuthenticated
    /\ selectedConversationId # NoConversation
    /\ ~loading
    /\ error = Null

\* ------------------------------------------------------------------------
\* Initial state: App and ConversationManager just mounted for a signed-in
\* user, nothing selected, nothing run, nothing sent
\* ------------------------------------------------------------------------
Init ==
    /\ selectedConversationId = NoConversation
    /\ code = DefaultCode
    /\ outputIsStale = TRUE
    /\ result = NoResult
    /\ isCodeRunning = FALSE
    /\ conversation = NoConversation
    /\ loading = TRUE
    /\ error = Null
    /\ messageInput = ""
    /\ sending = FALSE
    /\ lastSentCode = Null
    /\ timeoutRef = NoTimer
    /\ runs = <<>>
    /\ fetches = <<>>
    /\ sends = <<>>
    /\ sentClean = FALSE
    /\ retryBase = NoPayload
    /\ sentRerun = NothingSent
    /\ pyodide = FALSE
    /\ status = UNINITIALIZED
    /\ hookStatus = UNINITIALIZED
    /\ isPyodideInitializing = FALSE
    /\ initializeEffectDue = TRUE
    /\ calls = <<>>
    /\ isAuthenticated = TRUE
    /\ attachedCode = [id \in AllConversationIds |-> Null]

\* ------------------------------------------------------------------------
\* App: editor and runs
\* ------------------------------------------------------------------------
\* CodeEditor onChange -> setCode; the [code] effect marks the output stale
EditCode(c) ==
    /\ isAuthenticated
    /\ c # code
    /\ code' = c
    /\ outputIsStale' = TRUE
    /\ sends' = Touched(sends)
    /\ sentClean' = FALSE
    /\ retryBase' = NoPayload
    /\ sentRerun' = NothingSent
    /\ UNCHANGED <<selectedConversationId, hookVars, viewVars, sendVars, runs, fetches, engineVars,
                   sessionVars>>

\* handleRunCode up to the await inside executeCode: the previous result is
\* cleared and the run is handed to the engine with the code of this render
RunCode ==
    /\ isAuthenticated
    /\ Pending < MaxPending
    /\ result' = ClearedResult
    /\ isCodeRunning' = TRUE
    /\ runs' = Append(runs, [code |-> code])
    /\ sends' = Touched(sends)
    /\ sentClean' = FALSE
    /\ retryBase' = NoPayload
    /\ UNCHANGED <<appVars, viewVars, sendVars, fetches, sentRerun, engineVars,
                   sessionVars>>

\* executeCode resolves: the hook stores the result, then handleRunCode
\* continues with setOutputIsStale(false)
RunSucceeds(i) ==
    /\ i \in DOMAIN runs
    /\ result' = RunResult(runs[i].code)
    /\ isCodeRunning' = FALSE
    /\ outputIsStale' = FALSE
    /\ runs' = Remove(runs, i)
    /\ sends' = Touched(sends)
    /\ sentClean' = FALSE
    /\ retryBase' = NoPayload
    /\ sentRerun' = IF sentRerun = CodeSent /\ runs[i].code = code
                    THEN CodeSentThenRun
                    ELSE sentRerun
    /\ UNCHANGED <<selectedConversationId, code, viewVars, sendVars, fetches, engineVars,
                   sessionVars>>

RunFailsClearsStale(i) ==
    /\ i \in DOMAIN runs
    /\ result' = FailedResult
    /\ isCodeRunning' = FALSE
    /\ outputIsStale' = FALSE
    /\ runs' = Remove(runs, i)
    /\ sends' = Touched(sends)
    /\ sentClean' = FALSE
    /\ retryBase' = NoPayload
    /\ UNCHANGED <<selectedConversationId, code, viewVars, sendVars, fetches, sentRerun, engineVars,
                   sessionVars>>

\* executeCode throws (the engine is unavailable): the hook stores an empty
\* result carrying the error and rethrows; handleRunCode only logs
RunFails(i) ==
    /\ i \in DOMAIN runs
    /\ result' = FailedResult
    /\ isCodeRunning' = FALSE
    /\ runs' = Remove(runs, i)
    /\ sends' = Touched(sends)
    /\ sentClean' = FALSE
    /\ retryBase' = NoPayload
    /\ UNCHANGED <<appVars, viewVars, sendVars, fetches, sentRerun, engineVars,
                   sessionVars>>

\* ------------------------------------------------------------------------
\* ConversationManager: loading a conversation
\* ------------------------------------------------------------------------
\* ConversationSelector -> setSelectedConversationId; the [conversationId]
\* effect resets error and conversation and starts loadConversation
SelectConversation(id) ==
    /\ isAuthenticated
    /\ id # selectedConversationId
    /\ id # NoConversation => Pending < MaxPending
    /\ selectedConversationId' = id
    /\ error' = Null
    /\ conversation' = NoConversation
    /\ loading' = IF id = NoConversation THEN loading ELSE TRUE
    /\ fetches' = IF id = NoConversation THEN fetches ELSE Append(fetches, id)
    /\ UNCHANGED <<code, outputIsStale, hookVars, messageInput, sendVars, runs,
                   sends, sentClean, retryBase, sentRerun, engineVars,
                   sessionVars>>

\* fetchConversation resolves
FetchSucceeds(i) ==
    /\ i \in DOMAIN fetches
    /\ conversation' = fetches[i]
    /\ error' = Null
    /\ loading' = FALSE
    /\ fetches' = Remove(fetches, i)
    /\ UNCHANGED <<appVars, hookVars, messageInput, sendVars, runs, sends,
                   sentClean, retryBase, sentRerun, engineVars, sessionVars>>

\* fetchConversation rejects
FetchFails(i) ==
    /\ i \in DOMAIN fetches
    /\ error' = LoadError
    /\ loading' = FALSE
    /\ fetches' = Remove(fetches, i)
    /\ UNCHANGED <<appVars, hookVars, conversation, messageInput, sendVars, runs,
                   sends, sentClean, retryBase, sentRerun, engineVars,
                   sessionVars>>

\* ------------------------------------------------------------------------
\* ConversationManager: sending a message
\* ------------------------------------------------------------------------
\* handleTextareaChange; the textarea is disabled while sending
TypeMessage(m) ==
    /\ FormRendered
    /\ ~sending
    /\ m # messageInput
    /\ messageInput' = m
    /\ UNCHANGED <<appVars, hookVars, conversation, loading, error, sendVars,
                   runs, fetches, sends, sentClean, retryBase, sentRerun, engineVars,
                   sessionVars>>

\* the record of one sendMessage call awaiting its response: the arguments
\* of the call, the currentCode the handler closed over, and whether no edit
\* or run has happened since it was started
NewSend(codeToSend, stdoutToSend, stderrToSend) ==
    [conv |-> selectedConversationId,
     text |-> messageInput,
     code |-> codeToSend,
     stdout |-> stdoutToSend,
     stderr |-> stderrToSend,
     currentCode |-> code,
     clean |-> TRUE]

\* if (!conversationId || !messageInput.trim() || sending) return
SubmitAccepted ==
    /\ selectedConversationId # NoConversation
    /\ Trim(messageInput) # ""
    /\ ~sending

\* handleSendMessage up to the await of sendMessage: arm the timer, take the
\* lock, decide what to attach and call sendMessage
SubmitMessage ==
    /\ FormRendered
    /\ SubmitAccepted
    /\ Pending < MaxPending
    /\ timeoutRef' = PendingTimer
    /\ sending' = TRUE
    /\ LET codeToSend == CodeToSend(code, lastSentCode)
           stdoutToSend == OutputToSend(codeToSend, outputIsStale, StdoutProp(result))
           stderrToSend == OutputToSend(codeToSend, outputIsStale, StderrProp(result))
       IN  sends' = Append(sends, NewSend(codeToSend, stdoutToSend, stderrToSend))
    /\ retryBase' = NoPayload
    /\ UNCHANGED <<appVars, hookVars, viewVars, lastSentCode, runs, fetches, sentClean, sentRerun, engineVars,
                   sessionVars>>

TimeoutFiresKeepsLock ==
    /\ timeoutRef = PendingTimer
    /\ error' = TimeoutError
    /\ timeoutRef' = FiredTimer
    /\ retryBase' = NoPayload
    /\ UNCHANGED <<appVars, hookVars, conversation, loading, messageInput, sending,
                   lastSentCode, runs, fetches, sends, sentClean, sentRerun, engineVars,
                   sessionVars>>

\* the 10 second timer set by handleSendMessage fires; it belongs to the
\* send started last, which is still awaiting its response
TimeoutFires ==
    /\ timeoutRef = PendingTimer
    /\ sending' = FALSE
    /\ error' = TimeoutError
    /\ timeoutRef' = FiredTimer
    /\ retryBase' = NoPayload
    /\ UNCHANGED <<appVars, hookVars, conversation, loading, messageInput,
                   lastSentCode, runs, fetches, sends, sentClean, sentRerun, engineVars,
                   sessionVars>>

SendSucceedsCommitsEditor(i) ==
    /\ i \in DOMAIN sends
    /\ lastSentCode' = IF sends[i].code # Null THEN code ELSE lastSentCode
    /\ conversation' = sends[i].conv
    /\ messageInput' = ""
    /\ sending' = FALSE
    /\ timeoutRef' = NoTimer
    /\ sends' = Remove(sends, i)
    /\ sentClean' = IF sends[i].code # Null /\ sends[i].clean THEN TRUE ELSE sentClean
    /\ retryBase' = NoPayload
    /\ sentRerun' = IF sends[i].code = code /\ i = Len(sends)
                    THEN CodeSent
                    ELSE sentRerun
    /\ attachedCode' = IF sends[i].code # Null
                       THEN [attachedCode EXCEPT ![sends[i].conv] = sends[i].code]
                       ELSE attachedCode
    /\ UNCHANGED <<appVars, hookVars, loading, error, runs, fetches, engineVars,
                   isAuthenticated>>

\* sendMessage resolves: commit lastSentCode, show the returned
\* conversation, clear the input; finally releases the lock and the timer
SendSucceeds(i) ==
    /\ i \in DOMAIN sends
    /\ lastSentCode' = IF sends[i].code # Null THEN sends[i].currentCode ELSE lastSentCode
    /\ conversation' = sends[i].conv
    /\ messageInput' = ""
    /\ sending' = FALSE
    /\ timeoutRef' = NoTimer
    /\ sends' = Remove(sends, i)
    /\ sentClean' = IF sends[i].code # Null /\ sends[i].clean THEN TRUE ELSE sentClean
    /\ retryBase' = NoPayload
    /\ sentRerun' = IF sends[i].code = code /\ i = Len(sends)
                    THEN CodeSent
                    ELSE sentRerun
    /\ attachedCode' = IF sends[i].code # Null
                       THEN [attachedCode EXCEPT ![sends[i].conv] = sends[i].code]
                       ELSE attachedCode
    /\ UNCHANGED <<appVars, hookVars, loading, error, runs, fetches, engineVars,
                   isAuthenticated>>

SendFailsCommits(i) ==
    /\ i \in DOMAIN sends
    /\ lastSentCode' = IF sends[i].code # Null THEN sends[i].currentCode ELSE lastSentCode
    /\ error' = SendError
    /\ sending' = FALSE
    /\ timeoutRef' = NoTimer
    /\ sends' = Remove(sends, i)
    /\ retryBase' = IF sends[i].clean
                    THEN Payload(sends[i].code, sends[i].stdout, sends[i].stderr)
                    ELSE NoPayload
    /\ UNCHANGED <<appVars, hookVars, conversation, loading, messageInput,
                   runs, fetches, sentClean, sentRerun, engineVars,
                   sessionVars>>

\* sendMessage rejects (network error or non-success status): the catch
\* sets the error; finally releases the lock and the timer
SendFails(i) ==
    /\ i \in DOMAIN sends
    /\ error' = SendError
    /\ sending' = FALSE
    /\ timeoutRef' = NoTimer
    /\ sends' = Remove(sends, i)
    /\ retryBase' = IF sends[i].clean
                    THEN Payload(sends[i].code, sends[i].stdout, sends[i].stderr)
                    ELSE NoPayload
    /\ UNCHANGED <<appVars, hookVars, conversation, loading, messageInput,
                   lastSentCode, runs, fetches, sentClean, sentRerun, engineVars,
                   sessionVars>>

\* ------------------------------------------------------------------------
\* Specifications
\* ------------------------------------------------------------------------
Next ==
    \/ \E c \in Codes : EditCode(c)
    \/ RunCode
    \/ \E i \in DOMAIN runs : RunSucceeds(i)
    \/ \E i \in DOMAIN runs : RunFails(i)
    \/ \E id \in ConversationIds \cup {NoConversation} : SelectConversation(id)
    \/ \E i \in DOMAIN fetches : FetchSucceeds(i)
    \/ \E i \in DOMAIN fetches : FetchFails(i)
    \/ \E m \in Messages : TypeMessage(m)
    \/ SubmitMessage
    \/ TimeoutFires
    \/ \E i \in DOMAIN sends : SendSucceeds(i)
    \/ \E i \in DOMAIN sends : SendFails(i)

Spec == Init /\ [][Next]_vars

\* the browser fires a pending timer; nothing obliges the transport, the
\* engine or the user to act
FairSpec == Spec /\ WF_vars(TimeoutFires)

\* ------------------------------------------------------------------------
\* Execution engine: PyodideRunner behind usePythonExecution
\* ------------------------------------------------------------------------
\* one asynchronous call of the hook: initialize or executeCode, where it is
\* suspended, the code it runs, and how many loadPyodide calls it has made;
\* cold records that executeCode found state.status UNINITIALIZED.  pc counts
\* the chunks the program has emitted, stdoutBuffer and stderrBuffer are the
\* local buffers of PyodideRunner.executeCode, and installed tells that the
\* handlers this call set are the ones the engine calls now
NewCall(kind, at, c, loads, cold) ==
    [kind |-> kind, at |-> at, code |-> c, loads |-> loads, cold |-> cold,
     pc |-> 0, stdoutBuffer |-> <<>>, stderrBuffer |-> <<>>, installed |-> FALSE]

\* PyodideRunner.executeCode with the engine loaded: setStdout and setStderr
\* replace the handlers of the shared instance with those of call i, which
\* then awaits runPythonAsync
SetHandlers(cs, i) ==
    [j \in DOMAIN cs |->
        IF j = i
        THEN [cs[j] EXCEPT !.at = AtRunPython, !.installed = TRUE]
        ELSE [cs[j] EXCEPT !.installed = FALSE]]

\* finally: setStdout({}) and setStderr({}) put the default handlers back
ResetHandlers(cs) == [j \in DOMAIN cs |-> [cs[j] EXCEPT !.installed = FALSE]]

\* the call is awaiting loadPyodide
AwaitsLoad(call) == call.at \in {AtHookInitialize, AtServiceInitialize}

\* the effect of App that calls initialize() of the hook: it runs after the
\* mount and again whenever state.status, a dependency of initialize,
\* changed.  hook initialize returns unless state.status is UNINITIALIZED or
\* ERROR; PyodideRunner.initialize returns the loaded instance or sets
\* LOADING and awaits loadPyodide
Initialize ==
    /\ isAuthenticated
    /\ initializeEffectDue
    /\ IF hookStatus \in {UNINITIALIZED, ERROR}
       THEN IF pyodide
            THEN /\ hookStatus' = status
                 /\ initializeEffectDue' = (status # hookStatus)
                 /\ isPyodideInitializing' = FALSE
                 /\ UNCHANGED <<pyodide, status, calls>>
            ELSE /\ Len(calls) < MaxPending
                 /\ status' = LOADING
                 /\ isPyodideInitializing' = TRUE
                 /\ calls' = Append(calls,
                        NewCall("initialize", AtHookInitialize, Null, 1, FALSE))
                 /\ initializeEffectDue' = FALSE
                 /\ UNCHANGED <<pyodide, hookStatus>>
       ELSE /\ initializeEffectDue' = FALSE
            /\ UNCHANGED <<pyodide, status, hookStatus, isPyodideInitializing, calls>>
    /\ UNCHANGED <<appVars, hookVars, chatVars, sessionVars>>

\* handleRunCode -> executeCode of the hook, up to its first await that
\* leaves the event: the result is cleared; with state.status UNINITIALIZED
\* the hook awaits its own initialize, otherwise it calls
\* pyodideService.executeCode, which loads the engine itself when
\* this.pyodide is null
ExecuteCode ==
    /\ isAuthenticated
    /\ Len(calls) < MaxPending
    /\ isCodeRunning' = TRUE
    /\ result' = ClearedResult
    /\ IF hookStatus = UNINITIALIZED
       THEN IF pyodide
            THEN /\ hookStatus' = status
                 /\ initializeEffectDue' = (status # hookStatus)
                 /\ isPyodideInitializing' = FALSE
                 /\ calls' = SetHandlers(
                        Append(calls, NewCall("executeCode", AtRunPython, code, 0, TRUE)),
                        Len(calls) + 1)
                 /\ UNCHANGED <<pyodide, status>>
            ELSE /\ status' = LOADING
                 /\ isPyodideInitializing' = TRUE
                 /\ calls' = Append(calls,
                        NewCall("executeCode", AtHookInitialize, code, 1, TRUE))
                 /\ UNCHANGED <<pyodide, hookStatus, initializeEffectDue>>
       ELSE IF pyodide
            THEN /\ calls' = SetHandlers(
                        Append(calls, NewCall("executeCode", AtRunPython, code, 0, FALSE)),
                        Len(calls) + 1)
                 /\ UNCHANGED <<pyodide, status, hookStatus, isPyodideInitializing,
                                initializeEffectDue>>
            ELSE /\ status' = LOADING
                 /\ calls' = Append(calls,
                        NewCall("executeCode", AtServiceInitialize, code, 1, FALSE))
                 /\ UNCHANGED <<pyodide, hookStatus, isPyodideInitializing,
                                initializeEffectDue>>
    /\ UNCHANGED <<appVars, chatVars, sessionVars>>

\* loadPyodide resolves: PyodideRunner.initialize stores the instance and
\* sets READY; a caller inside hook initialize then copies getStatus() into
\* state.status; executeCode goes on to runPythonAsync
LoadResolves(i) ==
    /\ i \in DOMAIN calls
    /\ AwaitsLoad(calls[i])
    /\ pyodide' = TRUE
    /\ status' = READY
    /\ IF calls[i].at = AtHookInitialize
       THEN /\ hookStatus' = READY
            /\ initializeEffectDue' = (initializeEffectDue \/ hookStatus # READY)
            /\ isPyodideInitializing' = FALSE
       ELSE UNCHANGED <<hookStatus, initializeEffectDue, isPyodideInitializing>>
    /\ calls' = IF calls[i].kind = "initialize"
                THEN Remove(calls, i)
                ELSE SetHandlers(calls, i)
    /\ UNCHANGED <<appVars, hookVars, chatVars, sessionVars>>

\* loadPyodide rejects: PyodideRunner.initialize sets ERROR and rethrows.
\* hook initialize catches and sets state.status ERROR; executeCode of the
\* hook then continues into pyodideService.executeCode, which calls
\* this.initialize() again when this.pyodide is null.  A rejection inside
\* pyodideService.executeCode reaches the catch of the hook's executeCode
LoadRejects(i) ==
    /\ i \in DOMAIN calls
    /\ AwaitsLoad(calls[i])
    /\ IF calls[i].at = AtHookInitialize
       THEN /\ hookStatus' = ERROR
            /\ initializeEffectDue' = (initializeEffectDue \/ hookStatus # ERROR)
            /\ isPyodideInitializing' = FALSE
            /\ UNCHANGED hookVars
            /\ IF calls[i].kind = "initialize"
               THEN /\ status' = ERROR
                    /\ calls' = Remove(calls, i)
               ELSE IF pyodide
                    THEN /\ status' = ERROR
                         /\ calls' = SetHandlers(calls, i)
                    ELSE /\ status' = LOADING
                         /\ calls' = [calls EXCEPT ![i].at = AtServiceInitialize,
                                                   ![i].loads = @ + 1]
       ELSE /\ status' = ERROR
            /\ result' = LoadFailedResult
            /\ isCodeRunning' = FALSE
            /\ calls' = Remove(calls, i)
            /\ UNCHANGED <<hookStatus, initializeEffectDue, isPyodideInitializing>>
    /\ UNCHANGED <<pyodide, appVars, chatVars, sessionVars>>

\* the program of call i emits its next chunk: the engine hands it to the
\* batched handler installed at that moment, which pushes it onto the buffer
\* of the call that installed it; with the default handlers no call gets it
Emits(i) ==
    /\ i \in DOMAIN calls
    /\ calls[i].at = AtRunPython
    /\ calls[i].pc < Len(Chunks(calls[i].code))
    /\ LET chunk == Chunks(calls[i].code)[calls[i].pc + 1]
           Pushed(call) ==
               IF ~call.installed THEN call
               ELSE IF chunk.stream = "stdout"
                    THEN [call EXCEPT !.stdoutBuffer = Append(@, chunk.text)]
                    ELSE [call EXCEPT !.stderrBuffer = Append(@, chunk.text)]
       IN  calls' = [j \in DOMAIN calls |->
                        IF j = i
                        THEN [Pushed(calls[j]) EXCEPT !.pc = @ + 1]
                        ELSE Pushed(calls[j])]
    /\ UNCHANGED <<appVars, hookVars, chatVars, pyodide, status, hookStatus,
                   isPyodideInitializing, initializeEffectDue, sessionVars>>

\* runPythonAsync settles after the program ran to its end or to its fault:
\* pyodideService.executeCode returns the ExecutionResult whether or not the
\* program raised and puts the default handlers back; the hook stores the
\* result and handleRunCode continues with setOutputIsStale(false)
RunPythonSettles(i) ==
    /\ i \in DOMAIN calls
    /\ calls[i].at = AtRunPython
    /\ calls[i].pc = Len(Chunks(calls[i].code))
    /\ result' = ExecutionResult(calls[i])
    /\ isCodeRunning' = FALSE
    /\ outputIsStale' = FALSE
    /\ calls' = ResetHandlers(Remove(calls, i))
    /\ UNCHANGED <<selectedConversationId, code, chatVars, pyodide, status,
                   hookStatus, isPyodideInitializing, initializeEffectDue,
                   sessionVars>>

EngineNext ==
    \/ \E c \in Programs : EditCode(c)
    \/ Initialize
    \/ ExecuteCode
    \/ \E i \in DOMAIN calls : LoadResolves(i)
    \/ \E i \in DOMAIN calls : LoadRejects(i)
    \/ \E i \in DOMAIN calls : Emits(i)
    \/ \E i \in DOMAIN calls : RunPythonSettles(i)

\* the editor and the engine of one signed-in session, with the conversation
\* left alone
EngineSpec == Init /\ [][EngineNext]_vars

\* ------------------------------------------------------------------------
\* Signing out and in: AuthProvider and the logout effect of App
\* ------------------------------------------------------------------------
LogoutKeepsCode ==
    /\ isAuthenticated
    /\ isAuthenticated' = FALSE
    /\ selectedConversationId' = NoConversation
    /\ outputIsStale' = TRUE
    /\ conversation' = NoConversation
    /\ loading' = TRUE
    /\ error' = Null
    /\ messageInput' = ""
    /\ sending' = FALSE
    /\ lastSentCode' = Null
    /\ timeoutRef' = NoTimer
    /\ fetches' = <<>>
    /\ sends' = <<>>
    /\ sentClean' = FALSE
    /\ retryBase' = NoPayload
    /\ sentRerun' = NothingSent
    /\ initializeEffectDue' = FALSE
    /\ UNCHANGED <<code, hookVars, runs, pyodide, status, hookStatus,
                   isPyodideInitializing, calls, attachedCode>>

\* the Logout button -> logout(): the token is dropped and App renders Login
\* in place of the application, which unmounts ConversationManager: its
\* state is gone (the next mount starts from the initial values), its timer
\* is cleared and the responses of its calls in flight are discarded.  The
\* logout effect of App resets the selection, the code and the staleness
\* flag; the hook of App keeps its state and its runs in flight; the
\* initialize effect runs and does nothing
Logout ==
    /\ isAuthenticated
    /\ isAuthenticated' = FALSE
    /\ selectedConversationId' = NoConversation
    /\ code' = DefaultCode
    /\ outputIsStale' = TRUE
    /\ conversation' = NoConversation
    /\ loading' = TRUE
    /\ error' = Null
    /\ messageInput' = ""
    /\ sending' = FALSE
    /\ lastSentCode' = Null
    /\ timeoutRef' = NoTimer
    /\ fetches' = <<>>
    /\ sends' = <<>>
    /\ sentClean' = FALSE
    /\ retryBase' = NoPayload
    /\ sentRerun' = NothingSent
    /\ initializeEffectDue' = FALSE
    /\ UNCHANGED <<hookVars, runs, pyodide, status, hookStatus,
                   isPyodideInitializing, calls, attachedCode>>

\* Login -> login(newToken): App renders the application again, mounting a
\* new ConversationManager, and the initialize effect runs
Login ==
    /\ ~isAuthenticated
    /\ isAuthenticated' = TRUE
    /\ initializeEffectDue' = TRUE
    /\ UNCHANGED <<appVars, hookVars, chatVars, pyodide, status, hookStatus,
                   isPyodideInitializing, calls, attachedCode>>

AuthNext ==
    \/ \E c \in Codes : EditCode(c)
    \/ RunCode
    \/ \E i \in DOMAIN runs : RunSucceeds(i)
    \/ \E i \in DOMAIN runs : RunFails(i)
    \/ \E id \in ConversationIds \cup {NoConversation} : SelectConversation(id)
    \/ \E i \in DOMAIN fetches : FetchSucceeds(i)
    \/ \E i \in DOMAIN fetches : FetchFails(i)
    \/ \E m \in Messages : TypeMessage(m)
    \/ SubmitMessage
    \/ TimeoutFires
    \/ \E i \in DOMAIN sends : SendSucceeds(i)
    \/ \E i \in DOMAIN sends : SendFails(i)
    \/ Logout
    \/ Login

\* the application over several sessions in one page
AuthSpec == Init /\ [][AuthNext]_vars

\* ------------------------------------------------------------------------
\* Switching between two conversations
\* ------------------------------------------------------------------------
SwitchNext ==
    \/ \E c \in Codes : EditCode(c)
    \/ \E id \in AllConversationIds \cup {NoConversation} : SelectConversation(id)
    \/ \E i \in DOMAIN fetches : FetchSucceeds(i)
    \/ \E i \in DOMAIN fetches : FetchFails(i)
    \/ \E m \in Messages : TypeMessage(m)
    \/ SubmitMessage
    \/ TimeoutFires
    \/ \E i \in DOMAIN sends : SendSucceeds(i)
    \/ \E i \in DOMAIN sends : SendFails(i)

\* one session of a user with two conversations, nothing being run
SwitchSpec == Init /\ [][SwitchNext]_vars

\* ------------------------------------------------------------------------
\* Properties
\* ------------------------------------------------------------------------
\* the stdout and stderr handleSendMessage would attach in this state
WouldAttach ==
    LET codeToSend == CodeToSend(code, lastSentCode)
    IN  <<OutputToSend(codeToSend, outputIsStale, StdoutProp(result)),
          OutputToSend(codeToSend, outputIsStale, StderrProp(result))>>

\* the step just taken started a hook call that went on to call loadPyodide
CallStartsLoad ==
    /\ Len(calls') = Len(calls) + 1
    /\ AwaitsLoad(calls'[Len(calls')])

\* the call handed to sendMessage by the step just taken
Sent == sends'[Len(sends')]

\* C1: in every payload handed to sendMessage, stdout or stderr is non-null
\* only if code is non-null in that payload and outputIsStale was false when
\* the send was started; stdout and stderr are both null or both non-null
C1_OutputOnlyWithFreshCode ==
    [][SubmitMessage =>
          /\ (Sent.stdout # Null \/ Sent.stderr # Null) =>
                 (Sent.code # Null /\ ~outputIsStale)
          /\ (Sent.stdout = Null) <=> (Sent.stderr = Null)]_vars

\* a send with output attached is awaiting its response
C1_Witness ==
    \E i \in DOMAIN sends : sends[i].stdout # Null /\ sends[i].code # Null

\* C2: the code of every payload is the editor code when that differs, as a
\* string and without normalisation, from lastSentCode, and null when equal
C2_CodeIffChanged ==
    [][SubmitMessage =>
          Sent.code = (IF code # lastSentCode THEN code ELSE Null)]_vars

\* a send attached " " although "" had been sent before: the two differ only
\* by white space
C2_Witness ==
    \E i \in DOMAIN sends : sends[i].code = " " /\ lastSentCode = ""

\* C3: whenever a payload carries stdout/stderr, they are what a run of the
\* code in that same payload produces
C3_OutputMatchesCode ==
    \A i \in DOMAIN sends :
        sends[i].stdout # Null =>
            /\ sends[i].code # Null
            /\ sends[i].stdout = Stdout(sends[i].code)
            /\ sends[i].stderr = Stderr(sends[i].code)

\* C4: a run that resolves after the editor moved on to other code leaves
\* the staleness flag true
C4_StaleAfterEditDuringRun ==
    [][\A i \in DOMAIN runs :
          (RunSucceeds(i) /\ runs[i].code # code) => outputIsStale']_vars

\* C5: after a successful send that attached code, a send with no edit or
\* run in between attaches neither code nor stdout nor stderr
C5_SecondSendAttachesNothing ==
    [][(SubmitMessage /\ sentClean) =>
          (Sent.code = Null /\ Sent.stdout = Null /\ Sent.stderr = Null)]_vars

\* C6: a failed sendMessage leaves lastSentCode unchanged, and the retry
\* that follows with no edit or run in between computes the same code,
\* stdout and stderr as the failed attempt
C6_FailedSendIsRetryable ==
    [][/\ \A i \in DOMAIN sends : SendFails(i) => lastSentCode' = lastSentCode
       /\ (SubmitMessage /\ retryBase # NoPayload) =>
              Payload(Sent.code, Sent.stdout, Sent.stderr) = retryBase]_vars

\* C7: lastSentCode changes only in the step in which a send that attached
\* code completes successfully
C7_LastSentCodeFrame ==
    [][lastSentCode' # lastSentCode =>
          \E i \in DOMAIN sends : sends[i].code # Null /\ SendSucceeds(i)]_vars

\* a code was committed, and a later edit and a later failed send left
\* lastSentCode as it was
C7_Witness ==
    /\ lastSentCode # Null
    /\ code # lastSentCode
    /\ error = SendError

\* C8: a taken sending lock is eventually released; when the timer fires
\* before any response, sending becomes false and the timeout error is set
C8_LockReleased ==
    /\ sending ~> ~sending
    /\ [][(timeoutRef = PendingTimer /\ timeoutRef' = FiredTimer) =>
             (~sending' /\ error' = TimeoutError)]_vars

\* the timer fired, the lock is free and the send still awaits its response
C8_Witness ==
    /\ timeoutRef = FiredTimer
    /\ ~sending
    /\ error = TimeoutError
    /\ Len(sends) = 1

\* C9: the response of a send whose timer already fired does not update
\* lastSentCode
C9_TimedOutSendDoesNotCommit ==
    [][(timeoutRef = FiredTimer /\ Len(sends) = 1 /\ SendSucceeds(1)) =>
          lastSentCode' = lastSentCode]_vars

\* C10: after a send fails or times out the message input is rendered and
\* enabled again
C10_InputActiveAfterFailure ==
    [][((\E i \in DOMAIN sends : SendFails(i)) \/ TimeoutFires) =>
          (FormRendered' /\ ~sending')]_vars

\* C11: every edit of the code leaves outputIsStale true, and outputIsStale
\* goes from true to false only in a step in which a run resolves; starting
\* a run, a run that throws, and the steps of a send leave it as it is
C11_StaleClearedOnlyByRun ==
    [][/\ (\E c \in Codes : EditCode(c)) => outputIsStale'
       /\ (outputIsStale /\ ~outputIsStale') => \E i \in DOMAIN runs : RunSucceeds(i)
       /\ (\/ RunCode
           \/ \E i \in DOMAIN runs : RunFails(i)
           \/ SubmitMessage
           \/ TimeoutFires
           \/ \E i \in DOMAIN sends : SendSucceeds(i)
           \/ \E i \in DOMAIN sends : SendFails(i)) =>
              outputIsStale' = outputIsStale]_vars

\* a run threw and a send was started while the flag stayed true
C11_Witness ==
    /\ outputIsStale
    /\ result = FailedResult
    /\ sends # <<>>

\* C12: while nothing was ever run and lastSentCode is still null, a send
\* attaches the editor code, the empty string included, with stdout and
\* stderr null
C12_FirstSendAttachesCode ==
    [][(SubmitMessage /\ result = NoResult /\ lastSentCode = Null) =>
          (Sent.code = code /\ Sent.stdout = Null /\ Sent.stderr = Null)]_vars

\* the first send attached the empty editor text
C12_Witness ==
    /\ result = NoResult
    /\ lastSentCode = Null
    /\ \E i \in DOMAIN sends :
           sends[i].code = "" /\ sends[i].currentCode = "" /\ sends[i].stdout = Null

\* C13: a payload built with code attached while outputIsStale is false
\* carries the stdout and stderr of the stored ExecutionResult as strings,
\* the empty string for empty output, never null
C13_EmptyOutputIsNotNull ==
    [][(SubmitMessage /\ Sent.code # Null /\ ~outputIsStale) =>
          /\ Sent.stdout # Null /\ Sent.stderr # Null
          /\ Sent.stdout = result.stdout
          /\ Sent.stderr = result.stderr]_vars

\* the run of the empty program printed nothing, and the send that followed
\* attached the code with stdout and stderr as empty strings
C13_Witness ==
    /\ ~outputIsStale
    /\ result = RunResult("")
    /\ \E i \in DOMAIN sends :
           /\ sends[i].clean
           /\ sends[i].code = ""
           /\ sends[i].stdout = ""
           /\ sends[i].stderr = ""

\* C14: once the editor code went out with a message that succeeded and was
\* then run again to completion with no edit, a send attaches neither code
\* nor stdout nor stderr
C14_RerunOfSentCodeAttachesNothing ==
    [][(SubmitMessage /\ sentRerun = CodeSentThenRun) =>
          (Sent.code = Null /\ Sent.stdout = Null /\ Sent.stderr = Null)]_vars

\* C15: once the editor code went out with a message that succeeded and was
\* then run again to completion with no edit, a send carries the output of
\* that run
C15_RerunOutputIsSent ==
    [][(SubmitMessage /\ sentRerun = CodeSentThenRun) =>
          (Sent.stdout = result.stdout /\ Sent.stderr = result.stderr)]_vars

\* C16: no initialize or run call starts loadPyodide while the engine status
\* is LOADING or READY
C16_SingleLoadInFlight ==
    [][CallStartsLoad => status \notin {LOADING, READY}]_vars

\* C17: with the engine status ERROR, every initialize call and every run
\* starts a new loadPyodide, and a load that resolves leaves the status
\* READY with the engine loaded
C17_ErrorIsRecoverable ==
    [][/\ (status = ERROR /\ (Initialize \/ ExecuteCode)) => CallStartsLoad
       /\ \A i \in DOMAIN calls :
              LoadResolves(i) => (status' = READY /\ pyodide')]_vars

\* C18: the engine status changes only along the edges
\* UNINITIALIZED -> LOADING, LOADING -> READY, LOADING -> ERROR,
\* READY -> ERROR and ERROR -> LOADING
C18_StatusEdges ==
    [][status' # status =>
          <<status, status'>> \in
              {<<UNINITIALIZED, LOADING>>, <<LOADING, READY>>, <<LOADING, ERROR>>,
               <<READY, ERROR>>, <<ERROR, LOADING>>}]_vars

\* C19: a run that found the engine uninitialized has called loadPyodide
\* exactly once when its code has been executed
C19_OneLoadPerColdRun ==
    [][\A i \in DOMAIN calls :
          (RunPythonSettles(i) /\ calls[i].cold) => calls[i].loads = 1]_vars

C21_FaultAppearsInStderr ==
    [][\A i \in DOMAIN calls :
          (RunPythonSettles(i) /\ Fault(calls[i].code) # Null) =>
              result'.stderr =
                  Stderr(calls[i].code) \o "\n" \o Fault(calls[i].code)]_vars

\* C22: a step in which loadPyodide rejects, inside initialize or inside a
\* run, changes neither outputIsStale nor lastSentCode nor the stdout and
\* stderr that a send would attach
C22_InfraFailureKeepsTracker ==
    [][(\E i \in DOMAIN calls : LoadRejects(i)) =>
          /\ outputIsStale' = outputIsStale
          /\ lastSentCode' = lastSentCode
          /\ WouldAttach' = WouldAttach]_vars

\* C26: no executeCode call starts while a run is in progress or the engine
\* is being initialized
C26_SingleRunInFlight ==
    [][ExecuteCode => (~isCodeRunning /\ ~isPyodideInitializing)]_vars

\* C23: handleSendMessage calls sendMessage only when no earlier sendMessage
\* call is still awaiting its response
C23_SingleSendInFlight ==
    [][SubmitMessage => Len(sends) = 0]_vars

C27_ResultHoldsOwnOutput ==
    [][\A i \in DOMAIN calls :
          RunPythonSettles(i) =>
              /\ result'.stdout = Stdout(calls[i].code)
              /\ result'.stderr = Stderr(calls[i].code)]_vars

C28_ShownIsSelected ==
    (FormRendered /\ conversation # NoConversation) =>
        conversation = selectedConversationId

\* C29: when a send to a conversation succeeds, the code most recently
\* attached to a message of that conversation is the editor code that send
\* was started with
C29_ConversationHasCurrentCode ==
    [][\A i \in DOMAIN sends :
          SendSucceeds(i) =>
              attachedCode'[sends[i].conv] = sends[i].currentCode]_vars

\* C30: when the next user logs in the output pane shows no stdout and no
\* stderr of the previous user, and a message sent right away attaches none
C30_NoResultAcrossLogin ==
    [][Login => /\ result'.stdout = ""
                /\ result'.stderr = ""
                /\ WouldAttach' = <<Null, Null>>]_vars

=============================================================================
